---- MODULE Spec2Model ----
(***************************************************************************)
(* Query routing and response orchestration of the Nexus RAG chatbot.      *)
(* Three front ends share the pipeline and are modelled side by side:      *)
(*   "backend"  src/newrag_backend.py  (Flask service, NewRAGService)      *)
(*   "cli"      src/newragsearch.py    (terminal loop, main)               *)
(*   "app"      src/app.py             (Flask service, Chatbot)            *)
(* Text is a sequence of symbols; a fixed text of the program is a one     *)
(* symbol sequence holding that text.                                      *)
(* The ingestion script src/ragpull.py shares no state with the front      *)
(* ends; its chunking loop is modelled by the variable chunker.            *)
(***************************************************************************)
EXTENDS Integers, Sequences, FiniteSets, TLC

VARIABLES impl, pKey, oKey, collection,
          history, profile, awaiting,
          pc, raw, msg, routing, prompt, reply, calls,
          gen, ref, chunker

vars == <<impl, pKey, oKey, collection, history, profile, awaiting,
          pc, raw, msg, routing, prompt, reply, calls, gen, ref, chunker>>

config == <<impl, pKey, oKey, collection>>
session == <<history, profile, awaiting>>
locals == <<pc, raw, msg, routing, prompt, reply, calls>>

\* ------------------------------------------------------------------ bounds
MaxHist == 6
MaxLines == 1
MaxText == 3
MaxChunkSize == 3

\* ------------------------------------------------------------------ values
Impls == {"backend", "cli", "app"}
Threads == {1, 2}
None == <<"None">>
Fragments == {<<"x">>, <<"y">>}
Docs == <<"doc">>
RefinedQuery == <<"q">>

Falsy(v) == v = None \/ v = <<>>

AckText == <<"Thank you for sharing. I've made a note of that. Now, what was your original question about your future?">>
ClarifyText == <<"That's an important question. To give you the best guidance, could you tell me a bit about your career ambitions or what you hope to achieve?">>
NoProviderText == <<"Sorry, no AI provider is configured.">>
ConnectionErrorText == <<"Sorry, I encountered a connection error.">>
NotConfiguredText == <<"The web search feature is not configured.">>
SearchFailedText == <<"Sorry, I couldn't perform the web search.">>
NoContextText == <<"No context was found for this query.">>
NoMessageError == <<"No message provided">>

\* The message texts a client sends: empty, blank, a text padded with blanks.
RawMessages == {<<>>, <<" ">>, <<" ", "a", " ">>}

\* str.strip(): leading and trailing whitespace removed
RECURSIVE LStrip(_)
LStrip(s) == IF s # <<>> /\ Head(s) = " " THEN LStrip(Tail(s)) ELSE s

RECURSIVE RStrip(_)
RStrip(s) == IF s # <<>> /\ s[Len(s)] = " " THEN RStrip(SubSeq(s, 1, Len(s) - 1)) ELSE s

Strip(s) == RStrip(LStrip(s))

\* "".join(parts)
RECURSIVE Join(_)
Join(parts) == IF parts = <<>> THEN <<>> ELSE Head(parts) \o Join(Tail(parts))

Message(r, c) == [role |-> r, content |-> c]

\* ------------------------------------------------------- streaming adapters
\* One streamed line of a provider's response body.
\*   blank     empty line
\*   noprefix  non-empty line without the "data: " prefix
\*   badjson   payload that is not JSON
\*   nofields  JSON object without the delta/message fields
\*   badshape  JSON of another shape (not an object, empty choices list)
\*   data      well-formed delta with content c (c = <<>>: empty content)
Line(k, c) == [k |-> k, c |-> c]
SseLines == {Line(k, <<>>) : k \in {"blank", "noprefix", "badjson", "nofields", "badshape", "data"}}
              \cup {Line("data", f) : f \in Fragments}
NdjsonLines == {l \in SseLines : l.k # "noprefix"}

ChainKinds == {"app_chain", "backend_chain"}
GuidanceKinds == {"cli_guidance", "app_guidance"}
GenKinds == ChainKinds \cup GuidanceKinds \cup {"ollama"}

LinesOf(kind) == IF kind = "ollama" THEN NdjsonLines ELSE SseLines

\* What the loop body does with one line: "skip", "yield" or "raise".
LineEffect(kind, l) ==
  CASE l.k = "blank" -> "skip"
    [] l.k = "noprefix" -> "skip"
    [] l.k = "badjson" -> "skip"
    [] l.k = "nofields" -> "skip"
    [] l.k = "badshape" -> IF kind \in ChainKinds THEN "skip" ELSE "raise"
    [] l.k = "data" -> IF l.c # <<>> THEN "yield" ELSE "skip"

NotConfiguredOf(kind) == IF kind = "app_chain" THEN NoProviderText ELSE NotConfiguredText
FailureOf(kind) == IF kind = "app_chain" THEN ConnectionErrorText ELSE SearchFailedText

GenOff == [kind |-> "none", pc |-> "off", owner |-> 0, i |-> 0, emitted |-> 0,
           out |-> <<>>, reqs |-> <<>>, failed |-> {}]

GenBegin(kind, t) ==
  [kind |-> kind,
   pc |-> IF kind \in ChainKinds THEN "p_try" ELSE "s_try",
   owner |-> t, i |-> 0, emitted |-> 0, out |-> <<>>, reqs |-> <<>>, failed |-> {}]

Running(g) == g.pc \notin {"off", "done", "raised"}

\* g.reqs lists the providers requested, g.failed those whose initial request
\* failed (connection error, timeout, non-2xx status).
\* Events of the environment: the outcome of a request, the next event of a body
\* (a line, the end of the body, or a transport failure while reading it).
RequestEvents == {"ok", "fail"}
BodyEvents(kind) == LinesOf(kind) \cup {Line("close", <<>>), Line("fail", <<>>)}

Yield(g, text) == [g EXCEPT !.out = Append(@, text)]

\* for line in resp.iter_lines(): ... if content: yield content
ReadLine(g, l) ==
  LET e == LineEffect(g.kind, l)
      g1 == [g EXCEPT !.i = @ + 1]
  IN  CASE e = "yield" -> [Yield(g1, l.c) EXCEPT !.emitted = @ + 1]
        [] e = "raise" -> [g1 EXCEPT !.pc = "raised"]
        [] OTHER -> g1

\* A primary attempt that reports its failed request to the caller before the
\* chain moves on.
PerplexityRequestReports(g, key, ev) ==
  IF ~key THEN [g EXCEPT !.pc = "o_try"]
  ELSE LET g1 == [g EXCEPT !.reqs = Append(@, "perplexity")]
       IN  IF ev = "ok" THEN [g1 EXCEPT !.pc = "p_lines", !.i = 0]
           ELSE [Yield(g1, FailureOf(g.kind)) EXCEPT !.pc = "o_try",
                                                     !.failed = @ \cup {"perplexity"}]

\* 1) Perplexity attempt: credential check and requests.post / raise_for_status
PerplexityRequestStep(g, key, ev) ==
  IF ~key THEN [g EXCEPT !.pc = "o_try"]
  ELSE LET g1 == [g EXCEPT !.reqs = Append(@, "perplexity")]
       IN  IF ev = "ok" THEN [g1 EXCEPT !.pc = "p_lines", !.i = 0]
           ELSE [g1 EXCEPT !.pc = "o_try", !.failed = @ \cup {"perplexity"}]

\* A Perplexity line loop without the "return" after it: the end of the body
\* falls through to the fallback.
PerplexityLineFallsThrough(g, l) ==
  CASE l.k = "close" -> [g EXCEPT !.pc = "o_try"]
    [] l.k = "fail" -> [g EXCEPT !.pc = "o_try"]
    [] OTHER -> ReadLine(g, l)

\* the Perplexity line loop; "return" after the loop, "except Exception" around it
PerplexityLineStep(g, l) ==
  CASE l.k = "close" -> [g EXCEPT !.pc = "done"]
    [] l.k = "fail" -> [g EXCEPT !.pc = "o_try"]
    [] OTHER -> ReadLine(g, l)

\* 2) OpenRouter fallback: credential check and request
OpenRouterRequestStep(g, key, ev) ==
  IF ~key THEN [Yield(g, NotConfiguredOf(g.kind)) EXCEPT !.pc = "done"]
  ELSE LET g1 == [g EXCEPT !.reqs = Append(@, "openrouter")]
       IN  IF ev = "ok" THEN [g1 EXCEPT !.pc = "o_lines", !.i = 0]
           ELSE [Yield(g1, FailureOf(g.kind)) EXCEPT !.pc = "done",
                                                     !.failed = @ \cup {"openrouter"}]

\* An OpenRouter line loop whose handler starts the chain again.
OpenRouterLineRetries(g, l) ==
  CASE l.k = "close" -> [g EXCEPT !.pc = "done"]
    [] l.k = "fail" -> [g EXCEPT !.pc = "p_try"]
    [] OTHER -> ReadLine(g, l)

\* the OpenRouter line loop and its "except Exception"
OpenRouterLineStep(g, l) ==
  CASE l.k = "close" -> [g EXCEPT !.pc = "done"]
    [] l.k = "fail" -> [Yield(g, FailureOf(g.kind)) EXCEPT !.pc = "done"]
    [] OTHER -> ReadLine(g, l)

\* stream_ollama_chat_response / _stream_ollama: request
OllamaRequestStep(g, ev) ==
  LET g1 == [g EXCEPT !.reqs = Append(@, "ollama")]
  IN  IF ev = "ok" THEN [g1 EXCEPT !.pc = "s_lines", !.i = 0]
      ELSE [Yield(g1, ConnectionErrorText) EXCEPT !.pc = "done",
                                                  !.failed = @ \cup {"ollama"}]

\* the Ollama line loop and its "except RequestException"
OllamaLineStep(g, l) ==
  CASE l.k = "close" -> [g EXCEPT !.pc = "done"]
    [] l.k = "fail" -> [Yield(g, ConnectionErrorText) EXCEPT !.pc = "done"]
    [] OTHER -> ReadLine(g, l)

\* get_news_guidance / _get_news_guidance: credential check and request.
\* In the CLI the function is a generator, so its "return <text>" ends the
\* iteration without yielding; in app.py the text is the response body.
GuidanceRequestStep(g, key, ev) ==
  IF ~key
  THEN IF g.kind = "cli_guidance" THEN [g EXCEPT !.pc = "done"]
       ELSE [Yield(g, NotConfiguredText) EXCEPT !.pc = "done"]
  ELSE LET g1 == [g EXCEPT !.reqs = Append(@, "perplexity")]
       IN  IF ev = "ok" THEN [g1 EXCEPT !.pc = "s_lines", !.i = 0]
           ELSE [Yield(g1, SearchFailedText) EXCEPT !.pc = "done",
                                                    !.failed = @ \cup {"perplexity"}]

\* the guidance line loop and its "except RequestException"
GuidanceLineStep(g, l) ==
  CASE l.k = "close" -> [g EXCEPT !.pc = "done"]
    [] l.k = "fail" -> [Yield(g, SearchFailedText) EXCEPT !.pc = "done"]
    [] OTHER -> ReadLine(g, l)

\* Where the caller of a generator is once the generator has stopped: the CLI
\* loop goes on to record the turn, a Flask response is complete; an exception
\* leaving the generator ends the CLI process and breaks off the response.
Raised(im) == IF im = "cli" THEN "crashed" ELSE "raised"

AfterStream(im, g) ==
  IF g.pc = "raised" THEN Raised(im)
  ELSE IF im = "cli" THEN "cli_append" ELSE "done"

\* The consumer of the stream: fragments and requests seen by thread g.owner.
Deliver(g) ==
  IF Running(g) THEN UNCHANGED locals
  ELSE /\ pc' = [pc EXCEPT ![g.owner] = AfterStream(impl, g)]
       /\ reply' = [reply EXCEPT ![g.owner] = g.out]
       /\ calls' = [calls EXCEPT ![g.owner] = @ \o g.reqs]
       /\ UNCHANGED <<raw, msg, routing, prompt>>

\* The secondary provider run alone (the chain entered without a primary
\* credential), fed the events the secondary sees in the run of gen.
RefBegin(kind, t) ==
  IF kind \in ChainKinds THEN PerplexityRequestStep(GenBegin(kind, t), FALSE, "ok")
  ELSE GenOff

MoreLines(g, l) == l.k \in {"close", "fail"} \/ g.i < MaxLines

PerplexityRequest ==
  /\ gen.pc = "p_try"
  /\ \E ev \in RequestEvents :
       /\ gen' = PerplexityRequestStep(gen, pKey, ev)
       /\ Deliver(gen')
  /\ UNCHANGED <<config, chunker, session, ref>>

PerplexityLine ==
  /\ gen.pc = "p_lines"
  /\ \E l \in BodyEvents(gen.kind) :
       /\ MoreLines(gen, l)
       /\ gen' = PerplexityLineStep(gen, l)
       /\ Deliver(gen')
  /\ UNCHANGED <<config, chunker, session, ref>>

OpenRouterRequest ==
  /\ gen.pc = "o_try"
  /\ \E ev \in RequestEvents :
       /\ gen' = OpenRouterRequestStep(gen, oKey, ev)
       /\ ref' = OpenRouterRequestStep(ref, oKey, ev)
       /\ Deliver(gen')
  /\ UNCHANGED <<config, chunker, session>>

OpenRouterLine ==
  /\ gen.pc = "o_lines"
  /\ \E l \in BodyEvents(gen.kind) :
       /\ MoreLines(gen, l)
       /\ gen' = OpenRouterLineStep(gen, l)
       /\ ref' = OpenRouterLineStep(ref, l)
       /\ Deliver(gen')
  /\ UNCHANGED <<config, chunker, session>>

OllamaRequest ==
  /\ gen.pc = "s_try" /\ gen.kind = "ollama"
  /\ \E ev \in RequestEvents :
       /\ gen' = OllamaRequestStep(gen, ev)
       /\ Deliver(gen')
  /\ UNCHANGED <<config, chunker, session, ref>>

OllamaLine ==
  /\ gen.pc = "s_lines" /\ gen.kind = "ollama"
  /\ \E l \in BodyEvents(gen.kind) :
       /\ MoreLines(gen, l)
       /\ gen' = OllamaLineStep(gen, l)
       /\ Deliver(gen')
  /\ UNCHANGED <<config, chunker, session, ref>>

GuidanceRequest ==
  /\ gen.pc = "s_try" /\ gen.kind \in GuidanceKinds
  /\ \E ev \in RequestEvents :
       /\ gen' = GuidanceRequestStep(gen, pKey, ev)
       /\ Deliver(gen')
  /\ UNCHANGED <<config, chunker, session, ref>>

GuidanceLine ==
  /\ gen.pc = "s_lines" /\ gen.kind \in GuidanceKinds
  /\ \E l \in BodyEvents(gen.kind) :
       /\ MoreLines(gen, l)
       /\ gen' = GuidanceLineStep(gen, l)
       /\ Deliver(gen')
  /\ UNCHANGED <<config, chunker, session, ref>>

StreamStep ==
  \/ PerplexityRequest
  \/ PerplexityLine
  \/ OpenRouterRequest
  \/ OpenRouterLine
  \/ OllamaRequest
  \/ OllamaLine
  \/ GuidanceRequest
  \/ GuidanceLine

\* ------------------------------------------------------------ session state
NoProfile == [major |-> None, ambition |-> None]
AllowedKeys == {"major", "ambition"}
ProfileValues == {None, <<>>, <<"a">>}
EmptyDict == [k \in {} |-> None]

\* The "profile" field of a chat request: absent or not a JSON object
\* (dict = FALSE), or an object with some keys.
ProfileFields ==
  {[dict |-> FALSE, items |-> EmptyDict], [dict |-> TRUE, items |-> EmptyDict]}
    \cup {[dict |-> TRUE, items |-> ("ambition" :> v)] : v \in ProfileValues}
    \cup {[dict |-> TRUE, items |-> (k :> <<"a">>)] : k \in {"major", "other"}}
    \cup {[dict |-> TRUE, items |-> ("major" :> <<"a">>) @@ ("other" :> <<"a">>)]}

\* An update that merges every key of the request's profile field.
UpdateProfileUnfiltered(p, pf) ==
  IF ~pf.dict THEN p
  ELSE LET items == pf.items
       IN  [k \in DOMAIN p \cup DOMAIN items |->
              IF k \in DOMAIN items THEN items[k] ELSE p[k]]

\* service.user_profile.update({k: v ... if k in ("major", "ambition")})
UpdateProfile(p, pf) ==
  IF ~pf.dict THEN p
  ELSE LET items == pf.items
           keep == {k \in DOMAIN items : k \in AllowedKeys}
       IN  [k \in DOMAIN p \cup keep |-> IF k \in keep THEN items[k] ELSE p[k]]

NoRouting == [intent |-> "none", query |-> None]
RaiseRouting == [intent |-> "raise", query |-> None]

\* What the helper model's reply holds: a transport failure (connection,
\* timeout, non-2xx), content that is not JSON, JSON that is not an object,
\* or an object with an optional intent and an optional query.
RouterOutcomes ==
  {[kind |-> k, intent |-> "missing", query |-> None] :
     k \in {"transport", "notjson", "nonobject"}}
    \cup {[kind |-> "object", intent |-> "retrieval", query |-> q] :
            q \in {None, <<>>, RefinedQuery}}
    \cup {[kind |-> "object", intent |-> i, query |-> None] :
            i \in {"guidance_search", "conversation", "smalltalk", "missing"}}

\* _route_and_refine / route_and_refine_query / _route_and_refine_query
RouteResult(im, o, query) ==
  CASE o.kind \in {"transport", "notjson"} -> [intent |-> "conversation", query |-> query]
    [] o.kind = "nonobject" ->
         IF im = "backend" THEN [intent |-> "conversation", query |-> query]
         ELSE RaiseRouting
    [] OTHER -> [intent |-> IF o.intent = "missing" THEN "conversation" ELSE o.intent,
                 query |-> o.query]

\* What the embedding request meets: no connection, a timeout, a non-2xx
\* status, a 2xx reply whose body is JSON but not an object, an object
\* without an embedding, an object with one.
TransportFailures == {"connection", "timeout", "status"}
EmbedEvents == TransportFailures \cup {"nonobject", "noembedding", "vector"}

\* An embedding client with no handler around its request.
EmbeddingUnguarded(ev) ==
  CASE ev \in TransportFailures -> "raise"
    [] ev = "nonobject" -> "raise"
    [] ev = "noembedding" -> "empty"
    [] OTHER -> "vector"

\* _get_ollama_embedding / get_ollama_embedding: one requests.post, then
\* raise_for_status and resp.json().get("embedding"), inside
\* "except requests.exceptions.RequestException: return None".
\*   "fail" None returned by the handler, "empty" no embedding in the reply,
\*   "vector" the embedding, "raise" an exception the handler does not catch
GetOllamaEmbedding(ev) ==
  CASE ev \in TransportFailures -> "fail"
    [] ev = "nonobject" -> "raise"
    [] ev = "noembedding" -> "empty"
    [] OTHER -> "vector"

EmbedOutcomes == {GetOllamaEmbedding(ev) : ev \in EmbedEvents}
StoreOutcomes == {"nodocs", "emptylist", "docs", "raise"}

\* A retriever without the check of the store: with no collection the query
\* is embedded and the search is attempted on the missing object.
RetrieveUnchecked(im, query, coll, emb, st) ==
  IF Falsy(query)
  THEN [ctx |-> <<>>, calls |-> <<>>, raised |-> FALSE]
  ELSE IF emb = "raise"
  THEN [ctx |-> <<>>, calls |-> <<"embed">>, raised |-> TRUE]
  ELSE IF emb # "vector"
  THEN [ctx |-> <<>>, calls |-> <<"embed">>, raised |-> FALSE]
  ELSE [ctx |-> IF coll /\ st = "docs" THEN Docs ELSE <<>>,
        calls |-> <<"embed", "store">>,
        raised |-> ~coll \/ st = "raise"]

\* _retrieve_context / retrieve_context: the context text, the calls made, and
\* whether an exception of the embedding client or of the store leaves the
\* function.
RetrieveContext(im, query, coll, emb, st) ==
  IF Falsy(query) \/ (im # "cli" /\ ~coll)
  THEN [ctx |-> <<>>, calls |-> <<>>, raised |-> FALSE]
  ELSE IF emb = "raise"
  THEN [ctx |-> <<>>, calls |-> <<"embed">>, raised |-> TRUE]
  ELSE IF emb # "vector"
  THEN [ctx |-> <<>>, calls |-> <<"embed">>, raised |-> FALSE]
  ELSE [ctx |-> IF st = "docs" THEN Docs ELSE <<>>,
        calls |-> <<"embed", "store">>,
        raised |-> st = "raise"]

GuidanceSystem == <<"You are a helpful AI career and academic assistant.">>
RetrievalSystem == <<"Use ONLY the provided context.">>
PersonaSystem == <<"You are Nexus, a friendly and helpful AI academic counsellor for Sai University.">>

UserContext(p, m) ==
  <<"- My Major:">> \o p.major \o <<"- My Ambition:">> \o p.ambition \o <<"My Question:">> \o m

\* A user prompt that carries the retrieved text as it is, empty or not.
UserWithRawContext(ctx, m) ==
  <<"Context from university documents:">> \o ctx
    \o <<"please answer my last question:">> \o m

\* f"Context from university documents: ... {context or 'No context was found
\* for this query.'} ... please answer my last question: {user_text}"
UserWithContext(ctx, m) ==
  <<"Context from university documents:">> \o (IF ctx = <<>> THEN NoContextText ELSE ctx)
    \o <<"please answer my last question:">> \o m

\* A thread is idle between requests; "done", "rejected" and "raised" are the
\* points where a handler has just returned (a response, the 400 error, an
\* exception) and its locals are still to be dropped.
ReturnPcs == {"done", "rejected", "raised"}
Ready(t) == pc[t] = "idle"
Busy == {t \in Threads : ~Ready(t)}
\* every turn in flight may still record one pair
HistoryRoom == Len(history) + 2 * (Cardinality(Busy) + 1) <= MaxHist

\* A response generator reads the prompt it was built with and nothing of the
\* session, and a return drops only locals: these steps commute with the steps
\* of the other requests, and are taken first.
Settled == ~Running(gen) /\ \A t \in Threads : pc[t] \notin ReturnPcs
Quiet == Settled /\ \A t \in Threads : pc[t] # "respond"

StartGen(kind, t) ==
  /\ gen' = GenBegin(kind, t)
  /\ ref' = RefBegin(kind, t)

Accept(t, r, m, next) ==
  /\ raw' = [raw EXCEPT ![t] = r]
  /\ msg' = [msg EXCEPT ![t] = m]
  /\ pc' = [pc EXCEPT ![t] = next]
  /\ routing' = [routing EXCEPT ![t] = NoRouting]
  /\ prompt' = [prompt EXCEPT ![t] = <<>>]
  /\ calls' = [calls EXCEPT ![t] = <<>>]
  /\ reply' = [reply EXCEPT ![t] = IF next = "rejected" THEN <<NoMessageError>> ELSE <<>>]

\* newrag_backend.chat: POST /api/newrag/chat
ChatRequest(t) ==
  /\ impl = "backend" /\ Quiet /\ Ready(t) /\ HistoryRoom
  /\ \E r \in RawMessages \cup {None}, pf \in ProfileFields :
       LET m == Strip(IF r = None THEN <<>> ELSE r)
       IN  /\ profile' = UpdateProfile(profile, pf)
           /\ Accept(t, r, m, IF m = <<>> THEN "rejected" ELSE "check")
  /\ UNCHANGED <<config, chunker, history, awaiting, gen, ref>>

\* app.chat: POST /chat
AppChatRequest(t) ==
  /\ impl = "app" /\ Quiet /\ Ready(t) /\ HistoryRoom
  /\ \E r \in RawMessages \cup {None} :
       Accept(t, r, r, IF Falsy(r) THEN "rejected" ELSE "route")
  /\ UNCHANGED <<config, chunker, session, gen, ref>>

\* newragsearch.main: one line read at the prompt (not /exit, not /clear)
CliInput(t) ==
  /\ impl = "cli" /\ t = 1 /\ Quiet /\ Ready(t) /\ HistoryRoom
  /\ \E r \in RawMessages :
       Accept(t, r, r, IF r = <<>> THEN "idle" ELSE "check")
  /\ UNCHANGED <<config, chunker, session, gen, ref>>

\* newragsearch.main: "/exit"
CliExit(t) ==
  /\ impl = "cli" /\ t = 1 /\ Quiet /\ Ready(t)
  /\ pc' = [pc EXCEPT ![t] = "exited"]
  /\ UNCHANGED <<config, chunker, session, raw, msg, routing, prompt, reply, calls, gen, ref>>

\* if self.awaiting_ambition: / if awaiting_ambition:
HandleCheck(t) ==
  /\ Quiet /\ pc[t] = "check"
  /\ pc' = [pc EXCEPT ![t] = IF awaiting THEN "ambition" ELSE "route"]
  /\ UNCHANGED <<config, chunker, session, raw, msg, routing, prompt, reply, calls, gen, ref>>

\* A follow-up branch that leaves the profile as it is.
KeepProfile(p, m) == p

\* user_profile["ambition"] = <the message>
SetAmbition(p, m) ==
  [k \in DOMAIN p \cup {"ambition"} |-> IF k = "ambition" THEN m ELSE p[k]]

\* the ambition follow-up branch
AmbitionTurn(t) ==
  /\ Quiet /\ pc[t] = "ambition"
  /\ profile' = SetAmbition(profile, msg[t])
  /\ awaiting' = FALSE
  /\ reply' = [reply EXCEPT ![t] = <<AckText>>]
  /\ pc' = [pc EXCEPT ![t] = IF impl = "cli" THEN "cli_append" ELSE "append_user"]
  /\ UNCHANGED <<config, chunker, history, raw, msg, routing, prompt, calls, gen, ref>>

\* the router call
Route(t) ==
  /\ Quiet /\ pc[t] = "route"
  /\ \E o \in RouterOutcomes :
       LET d == RouteResult(impl, o, msg[t])
       IN  /\ routing' = [routing EXCEPT ![t] = d]
           /\ pc' = [pc EXCEPT ![t] = IF d = RaiseRouting THEN Raised(impl) ELSE "dispatch"]
  /\ calls' = [calls EXCEPT ![t] = Append(@, "router")]
  /\ UNCHANGED <<config, chunker, session, raw, msg, prompt, reply, gen, ref>>

\* A dispatcher whose final branch is the retrieval strategy.
StrategyElseRetrieval(intent) ==
  CASE intent = "guidance_search" -> "guidance"
    [] OTHER -> "retrieval"

\* if intent == 'guidance_search': ... elif intent == 'retrieval': ... else: ...
Strategy(intent) ==
  CASE intent = "guidance_search" -> "guidance"
    [] intent = "retrieval" -> "retrieval"
    [] OTHER -> "conversation"

\* A clarifying branch that also blanks the ambition it found missing.
ClarifyBlanksAmbition(t) ==
  /\ Quiet /\ pc[t] = "dispatch"
  /\ Strategy(routing[t].intent) = "guidance" /\ Falsy(profile.ambition)
  /\ profile' = SetAmbition(profile, IF profile.ambition = None THEN <<>> ELSE None)
  /\ awaiting' = IF impl = "app" THEN awaiting ELSE TRUE
  /\ reply' = [reply EXCEPT ![t] = <<ClarifyText>>]
  /\ pc' = [pc EXCEPT ![t] = CASE impl = "backend" -> "append_user"
                               [] impl = "cli" -> "cli_append"
                               [] OTHER -> "done"]
  /\ UNCHANGED <<config, chunker, history, raw, msg, routing, prompt, calls, gen, ref>>

\* intent guidance_search, ambition unknown: the clarifying question
Clarify(t) ==
  /\ Quiet /\ pc[t] = "dispatch"
  /\ Strategy(routing[t].intent) = "guidance" /\ Falsy(profile.ambition)
  /\ awaiting' = IF impl = "app" THEN awaiting ELSE TRUE
  /\ reply' = [reply EXCEPT ![t] = <<ClarifyText>>]
  /\ pc' = [pc EXCEPT ![t] = CASE impl = "backend" -> "append_user"
                               [] impl = "cli" -> "cli_append"
                               [] OTHER -> "done"]
  /\ UNCHANGED <<config, chunker, history, profile, raw, msg, routing, prompt, calls, gen, ref>>

GuidanceKind(im) ==
  CASE im = "backend" -> "backend_chain"
    [] im = "cli" -> "cli_guidance"
    [] OTHER -> "app_guidance"

\* A guidance branch that asks for the ambition although it is known.
GuidanceAsksAgain(t) ==
  /\ Quiet /\ pc[t] = "dispatch"
  /\ Strategy(routing[t].intent) = "guidance" /\ ~Falsy(profile.ambition)
  /\ awaiting' = IF impl = "app" THEN awaiting ELSE TRUE
  /\ reply' = [reply EXCEPT ![t] = <<ClarifyText>>]
  /\ pc' = [pc EXCEPT ![t] = CASE impl = "backend" -> "append_user"
                               [] impl = "cli" -> "cli_append"
                               [] OTHER -> "done"]
  /\ UNCHANGED <<config, chunker, history, profile, raw, msg, routing, prompt, calls, gen, ref>>

\* intent guidance_search, ambition known: the guidance strategy
Guidance(t) ==
  /\ Quiet /\ pc[t] = "dispatch"
  /\ Strategy(routing[t].intent) = "guidance" /\ ~Falsy(profile.ambition)
  /\ prompt' = [prompt EXCEPT ![t] = <<Message("system", GuidanceSystem),
                                       Message("user", UserContext(profile, msg[t]))>>]
  /\ pc' = [pc EXCEPT ![t] = "respond"]
  /\ UNCHANGED <<config, chunker, session, raw, msg, routing, reply, calls, gen, ref>>

\* intent retrieval: the retrieval strategy
Retrieval(t) ==
  /\ Quiet /\ pc[t] = "dispatch"
  /\ Strategy(routing[t].intent) = "retrieval"
  /\ \E ev \in EmbedEvents, st \in StoreOutcomes :
       LET r == RetrieveContext(impl, routing[t].query, collection,
                                GetOllamaEmbedding(ev), st)
       IN  /\ calls' = [calls EXCEPT ![t] = @ \o r.calls]
           /\ IF r.raised
              THEN /\ pc' = [pc EXCEPT ![t] = Raised(impl)]
                   /\ UNCHANGED prompt
              ELSE /\ prompt' = [prompt EXCEPT ![t] =
                        <<Message("system", RetrievalSystem)>> \o history
                          \o <<Message("user", UserWithContext(r.ctx, msg[t]))>>]
                   /\ pc' = [pc EXCEPT ![t] = "respond"]
  /\ UNCHANGED <<config, chunker, session, raw, msg, routing, reply, gen, ref>>

\* A conversation strategy that sends the persona and the message alone.
ConversationWithoutHistory(t) ==
  /\ Quiet /\ pc[t] = "dispatch"
  /\ Strategy(routing[t].intent) = "conversation"
  /\ IF impl = "app"
     THEN /\ pc' = [pc EXCEPT ![t] = "raised"]
          /\ UNCHANGED prompt
     ELSE /\ prompt' = [prompt EXCEPT ![t] =
               <<Message("system", PersonaSystem), Message("user", msg[t])>>]
          /\ pc' = [pc EXCEPT ![t] = "respond"]
  /\ UNCHANGED <<config, chunker, session, raw, msg, routing, reply, calls, gen, ref>>

\* any other intent: the conversation strategy. app.py calls a method the
\* Chatbot class does not define (_stream_ollama_chat_response).
Conversation(t) ==
  /\ Quiet /\ pc[t] = "dispatch"
  /\ Strategy(routing[t].intent) = "conversation"
  /\ IF impl = "app"
     THEN /\ pc' = [pc EXCEPT ![t] = "raised"]
          /\ UNCHANGED prompt
     ELSE /\ prompt' = [prompt EXCEPT ![t] =
               <<Message("system", PersonaSystem)>> \o history
                 \o <<Message("user", msg[t])>>]
          /\ pc' = [pc EXCEPT ![t] = "respond"]
  /\ UNCHANGED <<config, chunker, session, raw, msg, routing, reply, calls, gen, ref>>

\* The provider the strategy of an intent streams from.
StreamKind(im, intent) ==
  CASE intent = "guidance_search" -> GuidanceKind(im)
    [] intent = "retrieval" -> IF im = "app" THEN "app_chain" ELSE "ollama"
    [] OTHER -> "ollama"

\* The response generator starts to run: iterated by the CLI loop, or by the
\* server once the handler has returned the Response.
BeginStream(t) ==
  /\ Settled /\ pc[t] = "respond"
  /\ pc' = [pc EXCEPT ![t] = "stream"]
  /\ StartGen(StreamKind(impl, routing[t].intent), t)
  /\ UNCHANGED <<config, chunker, session, raw, msg, routing, prompt, reply, calls>>

\* The handler has returned: its locals are dropped.
Return(t) ==
  /\ pc[t] \in ReturnPcs
  /\ pc' = [pc EXCEPT ![t] = "idle"]
  /\ raw' = [raw EXCEPT ![t] = None]
  /\ msg' = [msg EXCEPT ![t] = None]
  /\ routing' = [routing EXCEPT ![t] = NoRouting]
  /\ prompt' = [prompt EXCEPT ![t] = <<>>]
  /\ reply' = [reply EXCEPT ![t] = <<>>]
  /\ calls' = [calls EXCEPT ![t] = <<>>]
  /\ gen' = IF gen.owner = t THEN GenOff ELSE gen
  /\ ref' = IF gen.owner = t THEN GenOff ELSE ref
  /\ UNCHANGED <<config, chunker, session>>

\* _append_history, first statement
AppendUser(t) ==
  /\ Quiet /\ pc[t] = "append_user"
  /\ history' = Append(history, Message("user", msg[t]))
  /\ pc' = [pc EXCEPT ![t] = "append_assistant"]
  /\ UNCHANGED <<config, chunker, profile, awaiting, raw, msg, routing, prompt, reply, calls, gen, ref>>

\* A second statement that replaces the history by the assistant entry.
OverwriteWithAssistant(t) ==
  /\ Quiet /\ pc[t] = "append_assistant"
  /\ history' = <<Message("assistant", Head(reply[t]))>>
  /\ pc' = [pc EXCEPT ![t] = "done"]
  /\ UNCHANGED <<config, chunker, profile, awaiting, raw, msg, routing, prompt, reply, calls, gen, ref>>

\* _append_history, second statement
AppendAssistant(t) ==
  /\ Quiet /\ pc[t] = "append_assistant"
  /\ history' = Append(history, Message("assistant", Head(reply[t])))
  /\ pc' = [pc EXCEPT ![t] = "done"]
  /\ UNCHANGED <<config, chunker, profile, awaiting, raw, msg, routing, prompt, reply, calls, gen, ref>>

\* A record of the user message alone.
UserOnly(m, text) == <<Message("user", m)>>

\* The two entries one turn records.
Pair(m, text) == <<Message("user", m), Message("assistant", text)>>

\* newragsearch.main: the end of the loop body
CliAppend(t) ==
  /\ Quiet /\ pc[t] = "cli_append"
  /\ history' = history \o Pair(msg[t], Join(reply[t]))
  /\ pc' = [pc EXCEPT ![t] = "done"]
  /\ UNCHANGED <<config, chunker, profile, awaiting, raw, msg, routing, prompt, reply, calls, gen, ref>>

\* A reset that empties the history and leaves the rest of the session.
ClearHistoryOnly ==
  /\ impl \in {"backend", "app"} /\ Quiet
  /\ history' = <<>>
  /\ UNCHANGED <<config, chunker, profile, awaiting, locals, gen, ref>>

\* NewRAGService.clear / Chatbot.clear_session
Clear ==
  /\ impl \in {"backend", "app"} /\ Quiet
  /\ history' = <<>>
  /\ profile' = NoProfile
  /\ awaiting' = FALSE
  /\ UNCHANGED <<config, chunker, locals, gen, ref>>

\* newragsearch.main: "/clear"
CliClear ==
  /\ impl = "cli" /\ Quiet /\ Ready(1)
  /\ history' = <<>>
  /\ profile' = NoProfile
  /\ awaiting' = FALSE
  /\ UNCHANGED <<config, chunker, locals, gen, ref>>

Request(t) ==
  \/ ChatRequest(t)
  \/ AppChatRequest(t)
  \/ CliInput(t)
  \/ CliExit(t)

Step(t) ==
  \/ HandleCheck(t)
  \/ AmbitionTurn(t)
  \/ Route(t)
  \/ Clarify(t)
  \/ Guidance(t)
  \/ Retrieval(t)
  \/ Conversation(t)
  \/ AppendUser(t)
  \/ AppendAssistant(t)
  \/ CliAppend(t)
  \/ BeginStream(t)
  \/ Return(t)

\* ---------------------------------------------------------------- ingestion
\* ragpull.chunk_text(text, chunk_size, chunk_overlap): the call, its
\* arguments and the locals of its loop; starts lists the value start_index
\* had when each chunk was appended.
ChunkOff == [pc |-> "off", text |-> <<>>, chunk_size |-> 0, chunk_overlap |-> 0,
             start_index |-> 0, chunks |-> <<>>, starts |-> <<>>]

RECURSIVE Texts(_)
Texts(n) ==
  IF n = 0 THEN {<<>>}
  ELSE Texts(n - 1) \cup {Append(s, c) : s \in {x \in Texts(n - 1) : Len(x) = n - 1},
                                          c \in {"a", "b"}}

ChunkCall(text, size, overlap) ==
  [pc |-> "call", text |-> text, chunk_size |-> size, chunk_overlap |-> overlap,
   start_index |-> 0, chunks |-> <<>>, starts |-> <<>>]

\* A loop that never ends appends without bound: the model follows it up to
\* MaxChunks chunks, more than any ending loop over these texts appends.
MaxChunks == MaxText + 2

\* an index of a slice, as Python clips it to the length n
ClipIndex(n, i) ==
  IF i < 0 THEN (IF n + i < 0 THEN 0 ELSE n + i)
  ELSE IF i > n THEN n ELSE i

\* text[a:b]
Slice(text, a, b) ==
  LET lo == ClipIndex(Len(text), a)
      hi == ClipIndex(Len(text), b)
  IN  IF lo < hi THEN SubSeq(text, lo + 1, hi) ELSE <<>>

\* A loop that moves on one character further than the step.
AdvancePastStep(c) == c.start_index + c.chunk_size - c.chunk_overlap + 1

\* start_index += chunk_size - chunk_overlap
Advance(c) == c.start_index + c.chunk_size - c.chunk_overlap

\* if not text: return []; otherwise chunks = [], start_index = 0
ChunkBegin ==
  /\ chunker.pc = "call"
  /\ chunker' = [chunker EXCEPT !.pc = IF chunker.text = <<>> THEN "done" ELSE "loop"]
  /\ UNCHANGED <<config, session, locals, gen, ref>>

\* the loop body, entered while start_index < len(text)
ChunkAppend ==
  /\ chunker.pc = "loop"
  /\ chunker.start_index < Len(chunker.text)
  /\ Len(chunker.chunks) < MaxChunks
  /\ chunker' = [chunker EXCEPT
        !.chunks = Append(@, Slice(chunker.text, chunker.start_index,
                                   chunker.start_index + chunker.chunk_size)),
        !.starts = Append(@, chunker.start_index),
        !.start_index = Advance(chunker)]
  /\ UNCHANGED <<config, session, locals, gen, ref>>

\* the loop test fails: return chunks
ChunkReturn ==
  /\ chunker.pc = "loop"
  /\ ~(chunker.start_index < Len(chunker.text))
  /\ chunker' = [chunker EXCEPT !.pc = "done"]
  /\ UNCHANGED <<config, session, locals, gen, ref>>

InitConfig ==
  /\ impl \in Impls
  /\ pKey \in BOOLEAN
  /\ oKey \in BOOLEAN
  /\ collection \in BOOLEAN
  /\ impl = "cli" => collection /\ ~oKey

InitSession ==
  /\ history = <<>>
  /\ profile = NoProfile
  /\ awaiting = FALSE

InitLocals ==
  /\ raw = [t \in Threads |-> None]
  /\ msg = [t \in Threads |-> None]
  /\ routing = [t \in Threads |-> NoRouting]
  /\ prompt = [t \in Threads |-> <<>>]
  /\ reply = [t \in Threads |-> <<>>]
  /\ calls = [t \in Threads |-> <<>>]

Init ==
  /\ InitConfig /\ InitSession /\ InitLocals
  /\ pc = [t \in Threads |-> "idle"]
  /\ gen = GenOff
  /\ ref = GenOff
  /\ chunker = ChunkOff

\* A clear request handled between two turns.
ClearBetweenTurns == Ready(1) /\ Clear

\* Turns and clear requests handled one after the other by one thread of
\* control.
Next ==
  \/ Request(1)
  \/ Step(1)
  \/ ClearBetweenTurns
  \/ CliClear
  \/ StreamStep

Spec == Init /\ [][Next]_vars

\* The Flask service of newrag_backend.py: the requests of the one shared
\* session are handled by the threads of the server, interleaved. (The
\* credentials and the store take no part in the session state: both are
\* present here.)
InitService == Init /\ impl = "backend" /\ pKey /\ oKey /\ collection

ServiceStep(t) ==
  \/ ChatRequest(t)
  \/ HandleCheck(t)
  \/ AmbitionTurn(t)
  \/ Route(t)
  \/ Clarify(t)
  \/ Guidance(t)
  \/ Retrieval(t)
  \/ Conversation(t)
  \/ AppendUser(t)
  \/ AppendAssistant(t)
  \/ BeginStream(t)
  \/ Return(t)

ServiceStream ==
  \/ PerplexityRequest
  \/ PerplexityLine
  \/ OpenRouterRequest
  \/ OpenRouterLine
  \/ OllamaRequest
  \/ OllamaLine

NextService ==
  \/ \E t \in Threads : ServiceStep(t)
  \/ Clear
  \/ ServiceStream

ServiceSpec == InitService /\ [][NextService]_vars

\* A streaming entry point called on its own.
KindsOf(im) ==
  CASE im = "backend" -> {"backend_chain", "ollama"}
    [] im = "cli" -> {"cli_guidance", "ollama"}
    [] OTHER -> {"app_chain", "app_guidance"}

InitStream ==
  /\ InitConfig /\ InitSession /\ InitLocals
  /\ pc = [t \in Threads |-> IF t = 1 THEN "stream" ELSE "idle"]
  /\ \E kind \in KindsOf(impl) :
       /\ gen = GenBegin(kind, 1)
       /\ ref = RefBegin(kind, 1)
  /\ chunker = ChunkOff

StreamSpec == InitStream /\ [][StreamStep]_vars

\* The consumer keeps iterating the generator, and the provider's response
\* is a finite body: after its lines it ends or breaks.
FairStreamSpec == StreamSpec /\ WF_vars(StreamStep)

\* One call of chunk_text, run to its end. The front ends are at rest.
InitChunk ==
  /\ impl = "backend" /\ pKey = TRUE /\ oKey = TRUE /\ collection = TRUE
  /\ InitSession /\ InitLocals
  /\ pc = [t \in Threads |-> "idle"]
  /\ gen = GenOff
  /\ ref = GenOff
  /\ \E text \in Texts(MaxText), size \in 0..MaxChunkSize, overlap \in 0..MaxChunkSize :
       chunker = ChunkCall(text, size, overlap)

NextChunk ==
  \/ ChunkBegin
  \/ ChunkAppend
  \/ ChunkReturn

ChunkSpec == InitChunk /\ [][NextChunk]_vars /\ WF_vars(NextChunk)

\* =================================================================== claims
\* ------------------------------------------------------------------------ C1
\* C1, as stated: when a message is handled while awaiting_ambition is true
\* (the handler is in its follow-up branch), the step of that branch leaves
\* profile.ambition equal to the message exactly as the client sent it,
\* awaiting_ambition false and the fixed acknowledgement as the reply, with no
\* router call made in the turn; and this is still so when the turn is done.
C1_AmbitionAsSent ==
  /\ [][\A t \in Threads :
          pc[t] = "ambition" /\ pc'[t] # "ambition" =>
            /\ profile'.ambition = raw[t]
            /\ ~awaiting'
            /\ reply'[t] = <<AckText>>
            /\ \A i \in DOMAIN calls'[t] : calls'[t][i] # "router"]_vars
  /\ [](\A t \in Threads :
          pc[t] = "done" /\ reply[t] = <<AckText>> =>
            /\ profile.ambition = raw[t]
            /\ ~awaiting
            /\ \A i \in DOMAIN calls[t] : calls[t][i] # "router")

\* C1, amended: the same, with profile.ambition equal to the message as the
\* handler received it: the backend service strips leading and trailing
\* whitespace from the message first, the terminal loop stores the line as typed.
C1_AmbitionStored ==
  /\ [][\A t \in Threads :
          pc[t] = "ambition" /\ pc'[t] # "ambition" =>
            /\ profile'.ambition = (IF impl = "backend" THEN Strip(raw[t]) ELSE raw[t])
            /\ ~awaiting'
            /\ reply'[t] = <<AckText>>
            /\ \A i \in DOMAIN calls'[t] : calls'[t][i] # "router"]_vars
  /\ [](\A t \in Threads :
          pc[t] = "done" /\ reply[t] = <<AckText>> =>
            /\ profile.ambition = (IF impl = "backend" THEN Strip(raw[t]) ELSE raw[t])
            /\ ~awaiting
            /\ \A i \in DOMAIN calls[t] : calls[t][i] # "router")

\* C1, witness: the backend has completed a follow-up turn for a message sent
\* with surrounding blanks.
C1_PaddedAmbitionTurnDone ==
  /\ impl = "backend" /\ pc[1] = "done" /\ reply[1] = <<AckText>>
  /\ raw[1] = <<" ", "a", " ">>
  /\ profile.ambition = <<"a">>

\* ------------------------------------------------------------------------ C2
\* C2, as stated: when a turn is done whose routed intent is guidance_search
\* while profile.ambition is empty, the reply is exactly the fixed clarifying
\* question, the router is the only call made (no completion provider), the
\* pair (m, clarifying question) ends the history, and awaiting_ambition is
\* true.
C2_ClarifyingTurn ==
  \A t \in Threads :
    pc[t] = "done" /\ routing[t].intent = "guidance_search" /\ Falsy(profile.ambition) =>
      /\ reply[t] = <<ClarifyText>>
      /\ calls[t] = <<"router">>
      /\ Len(history) >= 2
      /\ SubSeq(history, Len(history) - 1, Len(history)) = Pair(msg[t], ClarifyText)
      /\ awaiting

\* ------------------------------------------------------------------------ C3
\* C3, as stated, for the session between requests: whenever no request is
\* being handled, awaiting_ambition = true implies that profile.ambition is
\* empty (None or "").
C3_AwaitingImpliesNoAmbition ==
  (\A t \in Threads : Ready(t)) /\ awaiting => Falsy(profile.ambition)

\* ------------------------------------------------------------------------ C4
\* C4, as stated, for the backend service and the terminal loop: when a turn
\* is done whose response was streamed to its end, the last two history
\* entries are the user message of the turn and the concatenation of the
\* fragments streamed in it.
C4_StreamedTurnRecorded ==
  \A t \in Threads :
    impl \in {"backend", "cli"} /\ pc[t] = "done" /\ gen.owner = t /\ gen.pc = "done" =>
      /\ Len(history) >= 2
      /\ SubSeq(history, Len(history) - 1, Len(history)) = Pair(msg[t], Join(reply[t]))

\* ------------------------------------------------------------------------ C5
\* C5: whenever every turn begun has completed (each thread is idle or has
\* just returned its response), the length of the history is even.
C5_EvenHistory ==
  (\A t \in Threads : pc[t] \in {"idle", "done"}) => Len(history) % 2 = 0

\* C5, witness: the terminal loop has completed a clarifying turn, a follow-up
\* turn and a streamed turn, all three recorded.
C5_ThreeTurnsRecorded ==
  /\ pc[1] = "done" /\ gen.owner = 1 /\ gen.pc = "done" /\ gen.emitted > 0
  /\ Len(history) = 6
  /\ history[2].content = ClarifyText
  /\ history[4].content = AckText

\* ------------------------------------------------------------------------ C6
\* C6, as stated, for the states in which no thread is between the two appends
\* of one record: the history is a sequence of adjacent (user, assistant)
\* pairs, every user message followed at once by an assistant reply.
C6_HistoryPaired ==
  (\A t \in Threads : pc[t] # "append_assistant") =>
    \A i \in DOMAIN history :
      IF i % 2 = 1
      THEN /\ history[i].role = "user"
           /\ i < Len(history)
           /\ history[i + 1].role = "assistant"
      ELSE history[i].role = "assistant"

\* ------------------------------------------------------------------------ C7
\* C7, as stated: once the chain has yielded a fragment without having
\* requested the secondary provider (the fragment is the primary's), no step
\* requests the secondary provider.
C7_NoFallbackAfterFragment ==
  [][(/\ gen.kind \in ChainKinds
      /\ gen.emitted > 0
      /\ \A i \in DOMAIN gen.reqs : gen.reqs[i] # "openrouter")
       => \A i \in DOMAIN gen'.reqs : gen'.reqs[i] # "openrouter"]_vars

\* ------------------------------------------------------------------------ C8
\* C8: when the chain has requested the primary provider and moved on to the
\* secondary with no fragment of the primary yielded, what the chain has
\* yielded so far, and whether it has ended, are those of the secondary
\* provider run alone on the same events.
C8_FallbackEquivalence ==
  (/\ gen.kind \in ChainKinds
   /\ gen.reqs # <<>> /\ Head(gen.reqs) = "perplexity"
   /\ gen.pc \in {"o_try", "o_lines"} \/ (gen.pc = "done" /\ ref.pc = "done")
   /\ gen.emitted = ref.emitted)
    => gen.out = ref.out /\ gen.pc = ref.pc

\* C8, witness: the primary's request failed, the secondary streamed one
\* fragment and its body ended.
C8_FallbackStreamed ==
  /\ gen.kind \in ChainKinds /\ gen.pc = "done"
  /\ gen.reqs = <<"perplexity", "openrouter">>
  /\ gen.failed = {"perplexity"}
  /\ gen.emitted = 1 /\ Len(gen.out) = 1

\* ------------------------------------------------------------------------ C9
\* C9, as stated: when an entry point that checks a credential has ended with
\* no credential configured for any provider of its chain, it has yielded
\* exactly one fragment, the fixed 'not configured' text, and has made no
\* request.
C9_NotConfiguredDiagnostic ==
  (/\ gen.pc = "done"
   /\ \/ gen.kind \in ChainKinds /\ ~pKey /\ ~oKey
      \/ gen.kind \in GuidanceKinds /\ ~pKey)
    => gen.out = <<NotConfiguredOf(gen.kind)>> /\ gen.reqs = <<>>

\* ----------------------------------------------------------------------- C10
\* C10, as stated: when the chain has ended and the initial request of every
\* provider that has a credential (at least one has) failed, the chain has
\* yielded exactly one fragment, the fixed connection-error text.
C10_ConnectionErrorDiagnostic ==
  (/\ gen.kind \in ChainKinds /\ gen.pc = "done"
   /\ pKey \/ oKey
   /\ pKey => "perplexity" \in gen.failed
   /\ oKey => "openrouter" \in gen.failed)
    => gen.out = <<FailureOf(gen.kind)>>

\* ----------------------------------------------------------------------- C11
\* The three intents the router is asked to choose from.
RecognizedIntents == {"retrieval", "guidance_search", "conversation"}

\* C11, as stated: for every router reply that is a JSON object whose intent is
\* missing or not one of the three recognized values, route returns exactly
\* {intent: conversation, query: the original message}; and the intent of
\* every routing decision a turn is dispatched on is one of the three.
C11_UnrecognizedIntentDowngraded ==
  \A t \in Threads :
    /\ pc[t] = "route" =>
         \A o \in RouterOutcomes :
           o.kind = "object" /\ o.intent \notin RecognizedIntents =>
             RouteResult(impl, o, msg[t]) = [intent |-> "conversation", query |-> msg[t]]
    /\ pc[t] = "dispatch" => routing[t].intent \in RecognizedIntents

\* ----------------------------------------------------------------------- C12
\* C12, as stated: for every failed router outcome (transport error, content
\* that is not JSON, JSON that is not an object) route returns the decision
\* {intent: conversation, query: the original message} without raising, and no
\* turn is ever broken off by the router.
C12_RoutingNeverAborts ==
  \A t \in Threads :
    /\ pc[t] = "route" =>
         \A o \in RouterOutcomes :
           o.kind # "object" =>
             RouteResult(impl, o, msg[t]) = [intent |-> "conversation", query |-> msg[t]]
    /\ routing[t] # RaiseRouting

\* ----------------------------------------------------------------------- C13
\* C13, as stated, for the two Flask services and the turns the router did not
\* break off: no accepted message is ever left without a response because an
\* exception escaped the handler or its response stream.
C13_NoExceptionEscapes ==
  \A t \in Threads :
    impl \in {"backend", "app"} /\ routing[t] # RaiseRouting => pc[t] # "raised"

\* ----------------------------------------------------------------------- C14
\* C14: every clear step, from whatever session state it is taken, leaves the
\* history empty, the profile {major: None, ambition: None} and
\* awaiting_ambition false; taken on a session that is already in that state
\* (a second clear in a row), it changes nothing of the session.
C14_ClearResets ==
  [][(Clear \/ CliClear) =>
       /\ history' = <<>> /\ profile' = NoProfile /\ awaiting' = FALSE
       /\ (history = <<>> /\ profile = NoProfile /\ awaiting = FALSE
             => UNCHANGED session)]_vars

\* C14, witness: between two requests the backend session holds a recorded
\* turn, a major set by the client and the follow-up flag: the state a clear
\* request then resets.
C14_SessionToClear ==
  /\ impl = "backend" /\ \A t \in Threads : Ready(t)
  /\ Len(history) >= 2 /\ awaiting
  /\ ~Falsy(profile.major)

\* ----------------------------------------------------------------------- C15
\* C15, as stated, for what the history shows of it: in any sequential order
\* of turns a follow-up turn consumes the flag a clarifying turn has set, so
\* the history never holds two acknowledgement replies without a clarifying
\* question between them (two messages are not both consumed as the ambition).
C15_OneAmbitionPerQuestion ==
  \A i, j \in DOMAIN history :
    (/\ i < j
     /\ history[i] = Message("assistant", AckText)
     /\ history[j] = Message("assistant", AckText))
      => \E k \in (i + 1)..(j - 1) : history[k] = Message("assistant", ClarifyText)

\* ----------------------------------------------------------------------- C16
\* C16: in every turn whose routed intent is conversation (returned by the
\* router, or substituted after a routing failure) or any other intent that is
\* neither retrieval nor guidance_search, no embedding request and no
\* vector-store query is among the calls made.
C16_ConversationWithoutRetrieval ==
  \A t \in Threads :
    routing[t].intent \notin {"none", "raise", "retrieval", "guidance_search"} =>
      \A i \in DOMAIN calls[t] : calls[t][i] \notin {"embed", "store"}

\* C16, witness: a turn downgraded to conversation by a routing failure (the
\* decision carries the original message as its query) has streamed a
\* fragment from the local model and is done.
C16_DowngradedTurnStreamed ==
  /\ impl = "backend" /\ pc[1] = "done"
  /\ routing[1] = [intent |-> "conversation", query |-> msg[1]]
  /\ calls[1] = <<"router", "ollama">>
  /\ gen.pc = "done" /\ gen.emitted > 0

\* ----------------------------------------------------------------------- C17
\* The context section of a retrieval user prompt u built for message m: what
\* stands between the heading and the closing instruction.
ContextSection(u, m) == SubSeq(u, 2, Len(u) - Len(m) - 1)

\* C17: in a retrieval turn the context section of the user prompt is exactly
\* the sentinel "No context was found for this query." whenever the refined
\* query is null or empty, the store is unavailable, the embedding fails or
\* the store returns no documents; in the prompt a turn has built the section
\* is the sentinel or the retrieved documents, and it is the sentinel when the
\* store was never queried.
C17_NoContextSentinel ==
  \A t \in Threads :
    /\ pc[t] = "dispatch" /\ routing[t].intent = "retrieval" =>
         \A emb \in EmbedOutcomes, st \in StoreOutcomes :
           LET r == RetrieveContext(impl, routing[t].query, collection, emb, st)
           IN  (/\ ~r.raised
                /\ \/ Falsy(routing[t].query)
                   \/ impl # "cli" /\ ~collection
                   \/ emb # "vector"
                   \/ st # "docs")
                 => ContextSection(UserWithContext(r.ctx, msg[t]), msg[t]) = NoContextText
    /\ routing[t].intent = "retrieval" /\ prompt[t] # <<>> =>
         LET section == ContextSection(prompt[t][Len(prompt[t])].content, msg[t])
         IN  /\ section \in {NoContextText, Docs}
             /\ (\A i \in DOMAIN calls[t] : calls[t][i] # "store") => section = NoContextText

\* C17, witness: the backend has queried the store in a retrieval turn and
\* built a prompt whose context section is the sentinel (the store returned no
\* documents).
C17_EmptyStorePrompt ==
  /\ impl = "backend" /\ pc[1] = "respond" /\ routing[1].intent = "retrieval"
  /\ calls[1] = <<"router", "embed", "store">>
  /\ ContextSection(prompt[1][Len(prompt[1])].content, msg[1]) = NoContextText

\* ----------------------------------------------------------------------- C18
\* C18, as stated: a request being handled whose message is missing, or empty
\* once leading and trailing whitespace is removed, has been rejected with
\* the error result, and no router, embedding, store or provider call has
\* been made for it.
C18_EmptyMessageRejected ==
  \A t \in Threads :
    pc[t] # "idle" /\ Strip(IF raw[t] = None THEN <<>> ELSE raw[t]) = <<>> =>
      /\ pc[t] = "rejected"
      /\ reply[t] = <<NoMessageError>>
      /\ calls[t] = <<>>

\* ----------------------------------------------------------------------- C19
\* C19: every step that is not a clear leaves the history as it was or
\* extends it at the end: the history before the step is a prefix of the
\* history after it.
C19_AppendOnly ==
  [][(Clear \/ CliClear)
       \/ /\ Len(history') >= Len(history)
          /\ SubSeq(history', 1, Len(history)) = history]_vars

\* C19, witness: the backend has recorded a clarifying turn and then the
\* follow-up turn after it.
C19_TwoTurnsRecorded ==
  /\ impl = "backend" /\ pc[1] = "done" /\ Len(history) = 4
  /\ history[2].content = ClarifyText
  /\ history[4].content = AckText

\* ----------------------------------------------------------------------- C20
\* C20, as stated: when the last (or only) provider of a stream has yielded a
\* fragment and the stream then stops, the stopping step adds nothing to what
\* the caller has seen (a failure truncates the output, no diagnostic
\* follows the fragments).
C20_SilentTruncation ==
  [][(/\ gen.pc \in {"s_lines", "o_lines"}
      /\ (IF gen.kind \in ChainKinds THEN ref.emitted ELSE gen.emitted) > 0
      /\ ~Running(gen'))
       => gen'.out = gen.out]_vars

\* ----------------------------------------------------------------------- C21
\* The providers of a chain, in chain order.
Chain == <<"perplexity", "openrouter">>
ChainPrefixes == {<<>>, <<"perplexity">>, <<"openrouter">>, Chain}

\* C21, as stated: in one call of the adapter the requests made are a
\* subsequence of the chain (each provider at most once, in chain order); a
\* request is added one at a time, the secondary's only at the fallback point;
\* the fallback point is reached only from the primary's credential check with
\* no credential, from the primary's failed request, or from a transport
\* failure while the primary's body is read; and the end of the primary's body
\* ends the generator with no further request.
C21_ChainOrder ==
  /\ [](gen.kind \in ChainKinds =>
          /\ gen.reqs \in ChainPrefixes
          /\ gen.pc = "p_lines" =>
               LET g == PerplexityLineStep(gen, Line("close", <<>>))
               IN  g.pc = "done" /\ g.reqs = gen.reqs)
  /\ [][gen.kind \in ChainKinds /\ gen'.kind = gen.kind =>
          /\ gen'.reqs # gen.reqs =>
               \E p \in {"perplexity", "openrouter"} :
                 /\ gen'.reqs = Append(gen.reqs, p)
                 /\ p = "perplexity" => gen.pc = "p_try" /\ pKey
                 /\ p = "openrouter" => gen.pc = "o_try" /\ oKey
          /\ gen'.pc = "o_try" /\ gen.pc # "o_try" =>
               \/ gen.pc = "p_try" /\ ~pKey /\ gen'.reqs = <<>>
               \/ gen.pc = "p_try" /\ pKey /\ "perplexity" \in gen'.failed
               \/ gen.pc = "p_lines" /\ gen' = PerplexityLineStep(gen, Line("fail", <<>>))
          /\ ~Running(gen) => gen'.reqs = gen.reqs]_vars

\* C21, witness: both credentials are configured and the primary's stream has
\* completed normally after one fragment; the secondary was not requested.
C21_PrimaryCompleted ==
  /\ gen.kind \in ChainKinds /\ gen.pc = "done"
  /\ pKey /\ oKey
  /\ gen.reqs = <<"perplexity">> /\ gen.failed = {}
  /\ gen.emitted = 1 /\ Len(gen.out) = 1

\* ----------------------------------------------------------------------- C22
\* C22, as stated: while the body of a provider's response is read, every line
\* leaves the generator in its line loop (it does not end the stream and does
\* not start the fallback) and adds to the fragments yielded exactly its
\* content when it is a well-formed delta with non-empty content, and nothing
\* otherwise; the end of the body ends the generator and adds nothing.
C22_ExactlyTheDeltas ==
  gen.pc \in {"p_lines", "o_lines", "s_lines"} =>
    LET LineStep(l) ==
          CASE gen.pc = "p_lines" -> PerplexityLineStep(gen, l)
            [] gen.pc = "o_lines" -> OpenRouterLineStep(gen, l)
            [] gen.kind = "ollama" -> OllamaLineStep(gen, l)
            [] OTHER -> GuidanceLineStep(gen, l)
        end == LineStep(Line("close", <<>>))
    IN  /\ \A l \in LinesOf(gen.kind) :
             /\ LineStep(l).pc = gen.pc
             /\ LineStep(l).reqs = gen.reqs
             /\ LineStep(l).out =
                  (IF l.k = "data" /\ l.c # <<>> THEN Append(gen.out, l.c) ELSE gen.out)
        /\ end.pc = "done" /\ end.out = gen.out /\ end.reqs = gen.reqs

\* ----------------------------------------------------------------------- C23
\* C23, as stated: a generator that is iterated to its end, against providers
\* that deliver finitely many lines and then end the body or break, eventually
\* stops, and has made at most two requests when it does (and at any time).
C23_Terminates ==
  /\ <>(~Running(gen))
  /\ [](Len(gen.reqs) <= 2)

\* C23, witness: a chain has ended after two attempts, both begun with a
\* successful request and both broken off while the body was read.
C23_BothBrokenOff ==
  /\ gen.kind \in ChainKinds /\ gen.pc = "done"
  /\ gen.reqs = Chain /\ gen.failed = {}
  /\ gen.out = <<FailureOf(gen.kind)>>

\* ----------------------------------------------------------------------- C24
\* C24, as stated: retrieve returns the empty text, makes no embedding request
\* and no store query, and does not raise, when the query is null or empty or
\* the store is unavailable; it returns the empty text, makes no store query
\* and does not raise when the embedding request fails. A turn whose retrieval
\* was one of the first cases has made no embedding request and no store
\* query, and has gone on to build its prompt.
C24_RetrieveDegrades ==
  \A t \in Threads :
    /\ pc[t] = "dispatch" /\ routing[t].intent = "retrieval" =>
         \A emb \in EmbedOutcomes, st \in StoreOutcomes :
           LET r == RetrieveContext(impl, routing[t].query, collection, emb, st)
           IN  /\ Falsy(routing[t].query) \/ ~collection =>
                    r.ctx = <<>> /\ r.calls = <<>> /\ ~r.raised
               /\ emb = "fail" =>
                    /\ r.ctx = <<>> /\ ~r.raised
                    /\ \A i \in DOMAIN r.calls : r.calls[i] # "store"
    /\ (/\ routing[t].intent = "retrieval" /\ pc[t] \notin {"route", "dispatch"}
        /\ Falsy(routing[t].query) \/ ~collection) =>
         /\ \A i \in DOMAIN calls[t] : calls[t][i] \notin {"embed", "store"}
         /\ prompt[t] # <<>>

\* C24, witness: with no vector store the backend has handled a retrieval turn
\* with a refined query up to its prompt, the router being the only call made.
C24_StoreUnavailableTurn ==
  /\ impl = "backend" /\ ~collection
  /\ pc[1] = "respond" /\ routing[1] = [intent |-> "retrieval", query |-> RefinedQuery]
  /\ calls[1] = <<"router">>
  /\ ContextSection(prompt[1][Len(prompt[1])].content, msg[1]) = NoContextText

\* ----------------------------------------------------------------------- C25
\* C25, as stated: on a connection failure, a timeout or a non-2xx status the
\* embedding client returns None (it does not raise), and a turn makes at most
\* one embedding request: the one attempt of the one call of its retrieval.
C25_EmbeddingAbsence ==
  /\ \A ev \in TransportFailures : GetOllamaEmbedding(ev) = "fail"
  /\ \A t \in Threads :
       /\ Cardinality({i \in DOMAIN calls[t] : calls[t][i] = "embed"}) <= 1
       /\ (/\ pc[t] = "dispatch" /\ routing[t].intent = "retrieval"
           /\ ~Falsy(routing[t].query) /\ collection) =>
            \A ev \in TransportFailures, st \in StoreOutcomes :
              LET r == RetrieveContext(impl, routing[t].query, collection,
                                       GetOllamaEmbedding(ev), st)
              IN  r.calls = <<"embed">> /\ ~r.raised /\ r.ctx = <<>>

\* C25, witness: the terminal loop has made the embedding request of a
\* retrieval turn, got no vector, and built its prompt without a store query.
C25_NoVectorTurn ==
  /\ impl = "cli" /\ pc[1] = "respond"
  /\ routing[1] = [intent |-> "retrieval", query |-> RefinedQuery]
  /\ calls[1] = <<"router", "embed">>

\* ----------------------------------------------------------------------- C26
\* C26, as stated: a step that changes the profile is the acceptance of a
\* request by the backend's endpoint (its explicit profile update), the
\* ambition follow-up branch, or a clear; and no step taken while a turn is
\* being routed or has been routed (whatever its intent, clarifying or
\* streamed) changes profile.major or profile.ambition.
C26_ProfileWriters ==
  [][/\ profile' # profile =>
          \/ \E t \in Threads : impl = "backend" /\ pc[t] = "idle" /\ pc'[t] # "idle"
          \/ \E t \in Threads : pc[t] = "ambition" /\ pc'[t] # "ambition"
          \/ Clear \/ CliClear
     /\ (\E t \in Threads : pc[t] = "route" \/ routing[t] # NoRouting) =>
          /\ profile'.major = profile.major
          /\ profile'.ambition = profile.ambition]_vars

\* C26, witness: the backend has streamed the answer of a guidance turn, the
\* profile holding the ambition it was given.
C26_GuidanceTurnStreamed ==
  /\ impl = "backend" /\ pc[1] = "done"
  /\ routing[1].intent = "guidance_search"
  /\ profile.ambition = <<"a">>
  /\ gen.pc = "done" /\ gen.emitted > 0

\* ----------------------------------------------------------------------- C27
\* C27, as stated: the generator started for a retrieval turn is the
\* two-provider chain and the one started for a conversation turn is the
\* general-purpose provider's; a retrieval turn never requests the
\* general-purpose provider, a conversation turn never requests a provider of
\* the chain, and a conversation turn is not broken off before its stream.
C27_StrategyDispatch ==
  \A t \in Threads :
    /\ gen.owner = t /\ routing[t].intent = "retrieval" => gen.kind \in ChainKinds
    /\ gen.owner = t /\ routing[t].intent = "conversation" => gen.kind = "ollama"
    /\ routing[t].intent = "retrieval" =>
         \A i \in DOMAIN calls[t] : calls[t][i] # "ollama"
    /\ routing[t].intent = "conversation" =>
         /\ \A i \in DOMAIN calls[t] : calls[t][i] \notin {"perplexity", "openrouter"}
         /\ pc[t] = "raised" => gen.owner = t /\ gen.pc = "raised"

\* ----------------------------------------------------------------------- C28
\* C28, as stated: the message list built for a retrieval or a conversation
\* turn, as it stands when it is sent, is one system message, then the entire
\* history in its stored order, then one user message (len(history) + 2
\* entries); and the step that builds it leaves the history as it was.
C28_PromptShape ==
  /\ [](\A t \in Threads :
          (/\ pc[t] \in {"respond", "stream"}
           /\ routing[t].intent \notin {"none", "raise", "guidance_search"}) =>
            /\ Len(prompt[t]) = Len(history) + 2
            /\ prompt[t][1].role = "system"
            /\ SubSeq(prompt[t], 2, Len(prompt[t]) - 1) = history
            /\ prompt[t][Len(prompt[t])].role = "user")
  /\ [][\A t \in Threads :
          pc[t] = "dispatch" /\ pc'[t] = "respond" => history' = history]_vars

\* C28, witness: the backend is streaming a conversation turn from a list of
\* six messages, the four recorded entries of the history (a clarifying turn
\* and its follow-up) between the persona and the message.
C28_HistorySent ==
  /\ impl = "backend" /\ pc[1] = "stream"
  /\ routing[1].intent = "conversation"
  /\ Len(history) = 4 /\ Len(prompt[1]) = 6
  /\ prompt[1][2] = history[1] /\ prompt[1][5] = history[4]

\* ----------------------------------------------------------------------- C29
\* C29, as stated: the step in which the chat endpoint rejects a request with
\* the 'No message provided' error leaves the history, the profile and
\* awaiting_ambition as they were, whatever profile field the request carried.
C29_RejectionLeavesSession ==
  [][\A t \in Threads :
       (pc[t] = "idle" /\ pc'[t] = "rejected" /\ reply'[t] = <<NoMessageError>>) =>
         /\ history' = history
         /\ profile' = profile
         /\ awaiting' = awaiting]_vars

\* ----------------------------------------------------------------------- C30
\* C30, as stated: the ambition follow-up branch leaves profile.ambition
\* non-empty; a non-empty ambition stays non-empty through every step that is
\* neither a clear nor the profile update of a request; and a guidance_search
\* turn dispatched while the ambition is non-empty runs the guidance strategy:
\* it builds the guidance prompt, does not reply with the clarifying question
\* and does not set awaiting_ambition.
C30_AmbitionKept ==
  [][/\ \A t \in Threads :
          pc[t] = "ambition" /\ pc'[t] # "ambition" => ~Falsy(profile'.ambition)
     /\ (/\ ~Falsy(profile.ambition)
         /\ ~(Clear \/ CliClear)
         /\ ~(\E t \in Threads : impl = "backend" /\ pc[t] = "idle" /\ pc'[t] # "idle"))
          => ~Falsy(profile'.ambition)
     /\ \A t \in Threads :
          (/\ pc[t] = "dispatch" /\ pc'[t] # "dispatch"
           /\ routing[t].intent = "guidance_search"
           /\ ~Falsy(profile.ambition)) =>
            /\ pc'[t] = "respond"
            /\ prompt'[t] # <<>> /\ prompt'[t][1] = Message("system", GuidanceSystem)
            /\ reply'[t] # <<ClarifyText>>
            /\ awaiting' = awaiting]_vars

\* C30, witness: after a clarifying turn and its follow-up the backend has
\* dispatched a guidance_search turn to the guidance strategy, the ambition
\* being the one the follow-up stored.
C30_GuidanceAfterFollowUp ==
  /\ impl = "backend" /\ pc[1] = "respond"
  /\ routing[1].intent = "guidance_search"
  /\ Len(history) = 4 /\ history[4].content = AckText
  /\ profile.ambition = history[3].content
  /\ ~awaiting
  /\ prompt[1][1] = Message("system", GuidanceSystem)

\* ----------------------------------------------------------------------- C31
\* C31, as stated: in every reachable state the profile has exactly the keys
\* major and ambition; and for every profile field a chat request may carry,
\* the updated profile has exactly these two keys, holds the field's value for
\* each of the two keys present in the field, and the former value for the
\* other (a field that is not an object changes nothing).
C31_ProfileKeys ==
  /\ DOMAIN profile = {"major", "ambition"}
  /\ \A pf \in ProfileFields :
       LET p == UpdateProfile(profile, pf)
       IN  /\ DOMAIN p = {"major", "ambition"}
           /\ \A k \in {"major", "ambition"} :
                p[k] = (IF pf.dict /\ k \in DOMAIN pf.items THEN pf.items[k]
                        ELSE profile[k])

\* C31, witness: the backend has accepted a request whose profile field set
\* the major, the ambition being still unknown.
C31_MajorUpdated ==
  /\ impl = "backend" /\ pc[1] = "check"
  /\ profile = [major |-> <<"a">>, ambition |-> None]

\* ----------------------------------------------------------------------- C32
\* C32, as stated: for a non-empty text and chunk_size > chunk_overlap >= 0
\* the call of chunk_text ends; when it has ended every character position of
\* the text lies in a returned chunk, each chunk being the slice of the text
\* that begins at its start; each chunk starts exactly chunk_size -
\* chunk_overlap after the previous one; and with chunk_overlap >= chunk_size
\* (and a non-empty text) the loop test never fails: start_index does not
\* grow and the call never ends.
C32_ChunkText ==
  LET c == chunker
      n == Len(c.text)
      ends == c.text # <<>> /\ c.chunk_size > c.chunk_overlap /\ c.chunk_overlap >= 0
      loops == c.text # <<>> /\ c.chunk_overlap >= c.chunk_size
  IN  /\ (c.pc = "call" /\ ends) ~> (c.pc = "done")
      /\ [](c.pc = "done" /\ ends =>
              \A p \in 0..(n - 1) :
                \E k \in DOMAIN c.chunks :
                  /\ c.starts[k] <= p /\ p < c.starts[k] + c.chunk_size
                  /\ c.chunks[k] = SubSeq(c.text, c.starts[k] + 1,
                                          IF c.starts[k] + c.chunk_size > n THEN n
                                          ELSE c.starts[k] + c.chunk_size))
      /\ [](/\ Len(c.starts) = Len(c.chunks)
            /\ \A k \in DOMAIN c.starts :
                 c.starts[k] = (IF k = 1 THEN 0
                                ELSE c.starts[k - 1] + c.chunk_size - c.chunk_overlap))
      /\ [](loops => /\ c.pc # "done"
                     /\ c.pc = "loop" => c.start_index <= 0 /\ c.start_index < n)

\* C32, witness: a text of three characters has been split with chunk_size 2
\* and chunk_overlap 1 into three chunks, the last one shorter.
C32_ThreeChunks ==
  /\ chunker.pc = "done"
  /\ Len(chunker.text) = 3 /\ chunker.chunk_size = 2 /\ chunker.chunk_overlap = 1
  /\ chunker.starts = <<0, 1, 2>>
  /\ Len(chunker.chunks[3]) = 1
====
